---- MODULE Spec2Model ----
(***************************************************************************)
(* Model of the live-update core of rust-htmx:                             *)
(*   - the post store, a Vec<Post> behind a tokio Mutex (FIFO fair),       *)
(*   - the monitor task of PostDataSource::new (hash, compare, publish,    *)
(*     sleep while still holding the store guard),                         *)
(*   - the tokio watch channel (single slot value + version, read borrows  *)
(*     taken by borrow_and_update, write access taken by send_replace),    *)
(*   - the per-connection task of home_sse and its mpsc(1) channel to the  *)
(*     client,                                                             *)
(*   - the create_post and update_post handlers.                           *)
(***************************************************************************)
EXTENDS Integers, Sequences, FiniteSets, TLC

\* ---------------------------------------------------------------- bounds
MaxPosts == 2
MaxWrites == 2
HashBits == 4

\* ------------------------------------------------------- program constants
\* tokio::sync::mpsc::channel(1) in home_sse
MpscCapacity == 1
\* let mut last_hash: u64 = 0
InitialLastHash == 0
\* version of a freshly created watch channel, copied into AppState's receiver
InitialVersion == 0
\* let next_post_id = Arc::new(Mutex::new(1u64))
InitialNextPostId == 1

Sessions == {"s1", "s2"}
Writers == {"w1", "w2"}
Users == {"alice", "bob"}
\* Username().fake(): the name each session draws, fixed per session here
Username == [s \in Sessions |-> IF s = "s1" THEN "alice" ELSE "zed"]
Chars == {" ", "a", "b"}
Ids == 0..MaxPosts

\* the create requests each client tries (QueryParams: username, message)
CreateInputs(w) ==
  IF w = "w1" THEN {[username |-> "alice", message |-> <<"a">>]}
              ELSE {[username |-> "bob", message |-> <<" ">>]}

\* the update requests each client tries (Path id; QueryParams): a proper
\* message for every id, existing or not, and two blank ones
UpdateInputs(w) ==
  IF w = "w1"
    THEN {[id |-> i, username |-> "bob", message |-> <<"b">>] : i \in Ids}
           \cup {[id |-> 0, username |-> "alice", message |-> <<" ">>],
                 [id |-> MaxPosts, username |-> "bob", message |-> <<>>]}
    ELSE {}

VARIABLES
  posts,      \* the Vec<Post> inside Arc<Mutex<..>>
  guard,      \* task holding the store MutexGuard, or "none"
  waitq,      \* tasks parked in posts.lock().await, in arrival order
  dpc,        \* position of the monitor task
  hash,       \* its local `hash`
  last_hash,  \* its local `last_hash`
  sent,       \* whether this iteration took the send_replace branch
  chan,       \* watch channel shared state: [value, version]
  spc,        \* position of each home_sse task
  seen,       \* version stored in each task's watch::Receiver
  html,       \* the `html` each task rendered last
  mpsc,       \* buffer of each task's mpsc channel to the client
  client,     \* state of the client end (ReceiverStream) of each session
  emitted,    \* number of events each task has sent
  rdver,      \* channel version of the value each task borrowed last
  wpc,        \* position of each writer request
  req,        \* its payload
  resp,       \* its last HTTP status
  writes,     \* number of requests that went on to take the store guard
  next_post_id, \* AppState.next_post_id
  sender,     \* the watch::Sender owned by the monitor task: "alive" | "dropped"
  page        \* the body of the last GET /home response

vars == <<posts, guard, waitq, dpc, hash, last_hash, sent, chan, spc, seen,
          html, mpsc, client, emitted, rdver, wpc, req, resp, writes,
          next_post_id, sender, page>>

storeVars == <<posts, guard, waitq>>
detVars == <<dpc, hash, last_hash, sent>>
sessVars == <<spc, seen, html, mpsc, client, emitted, rdver>>
wrVars == <<wpc, req, resp, writes>>
\* what only the page request, the id counter and the shutdown touch
restVars == <<next_post_id, sender, page>>

\* ------------------------------------------------------------------ Post
\* data::model::Post as create_post builds it
Post(id, username, message, time, avatar) ==
  [id |-> id, username |-> username, message |-> message,
   time |-> time, avatar |-> avatar]

\* format!("https://ui-avatars.com/api/?...&name= {}", payload.username)
Avatar(username) == <<"ui-avatars", username>>

NoHtml == [viewer |-> "none", cards |-> <<>>]
NoReq == [op |-> "none"]

\* ------------------------------------------------------------------ hash
HashMod == 2 ^ HashBits

CharCode == [c \in Chars |-> CASE c = " " -> 1 [] c = "a" -> 2 [] c = "b" -> 3]
UserCode == [u \in Users |-> IF u = "alice" THEN 4 ELSE 5]

RECURSIVE CodesOf(_)
CodesOf(s) == IF s = <<>> THEN <<>> ELSE <<CharCode[Head(s)]>> \o CodesOf(Tail(s))

\* impl Hash for str: the bytes, then the 0xff terminator (coded 0 here)
StrBytes(codes) == codes \o <<0>>

\* #[derive(Hash)] on Post: the fields in declaration order
PostBytes(p) ==
  <<p.id>> \o StrBytes(<<UserCode[p.username]>>) \o StrBytes(CodesOf(p.message))
           \o StrBytes(<<p.time>>) \o StrBytes(<<UserCode[p.avatar[2]] + 4>>)

RECURSIVE VecBytes(_)
VecBytes(ps) == IF ps = <<>> THEN <<>> ELSE PostBytes(Head(ps)) \o VecBytes(Tail(ps))

RECURSIVE Mix(_, _)
Mix(h, bytes) ==
  IF bytes = <<>> THEN h
  ELSE Mix((h * 5 + Head(bytes) + 1) % HashMod, Tail(bytes))

\* DefaultHasher::new(); posts_lock.hash(&mut hasher); hasher.finish()
\* The 64-bit SipHash-1-3 is narrowed to HashBits bits.  What is kept: it is
\* a function of the length prefix and of every field of every post in order,
\* it is not injective, and the empty Vec does not hash to 0 (the real value
\* is 0xbd60acb658c79e45).
Hash(ps) == Mix(1, <<Len(ps)>> \o VecBytes(ps))

\* ---------------------------------------------------------------- render
\* views::home::home_page: one card per post, in order
Card(username, p) ==
  [id |-> p.id, avatar |-> p.avatar, username |-> p.username, time |-> p.time,
   message |-> p.message, edit |-> (p.username = username)]

home_page(username, ps) ==
  [viewer |-> username, cards |-> [i \in 1..Len(ps) |-> Card(username, ps[i])]]

\* the posts an event shows
PostsOf(h) ==
  [i \in 1..Len(h.cards) |->
     Post(h.cards[i].id, h.cards[i].username, h.cards[i].message,
          h.cards[i].time, h.cards[i].avatar)]

\* str::is_empty() without the trim
IsEmpty(s) == s = <<>>

\* str::trim().is_empty()
RECURSIVE IsBlank(_)
IsBlank(s) == IF s = <<>> THEN TRUE ELSE Head(s) = " " /\ IsBlank(Tail(s))

\* ------------------------------------------------------ tokio::sync::Mutex
\* lock().await: taken at once when the guard is free, else parked in FIFO
\* order; dropping the guard hands it to the longest-waiting task.
\* a lock that hands the guard to whoever asks, held or not
GuardAfterLockBarging(t) == t

GuardAfterLock(t) == IF guard = "none" THEN t ELSE guard
QueueAfterLock(t) == IF guard = "none" THEN waitq ELSE Append(waitq, t)
\* a guard that is not given up when its holder is done
GuardAfterUnlockKept == guard

GuardAfterUnlock == IF waitq = <<>> THEN "none" ELSE Head(waitq)
QueueAfterUnlock == IF waitq = <<>> THEN <<>> ELSE Tail(waitq)

\* ------------------------------------------------------------ watch channel
\* sessions holding a watch::Ref (read access to the shared value)
Borrowers == {s \in Sessions : spc[s] = "render"}

\* a send that leaves out the newest post
send_truncated(value) ==
  [value |-> SubSeq(value, 1, Len(value) - 1), version |-> chan.version + 1]

\* a send that wakes the receivers but leaves the old value in the channel
send_notify_only(value) == [value |-> chan.value, version |-> chan.version + 1]

\* Sender::send_replace: swap the value in, bump the version, wake receivers
send_replace(value) == [value |-> value, version |-> chan.version + 1]

\* a wait that is also ready when nothing was published since the last look
has_changed_spurious(s) == chan.version >= seen[s]

\* Receiver::changed is ready when the shared version differs from the seen one
has_changed(s) == chan.version # seen[s]

\* a receiver made by Sender::subscribe: it starts at the current version
ReceiverSubscribed == chan.version

\* the State extractor clones AppState, and with it post_receiver: the clone
\* copies the version of AppState's receiver, which no handler ever advances
ReceiverClone == InitialVersion

\* one receiver shared by all tasks
SeenAfterBorrowShared(s) == [t \in Sessions |-> chan.version]

\* a receiver that steps through the versions one at a time
SeenAfterBorrowQueued(s) ==
  [seen EXCEPT ![s] = IF @ < chan.version THEN @ + 1 ELSE @]

\* borrow_and_update marks the current version as seen by this receiver
SeenAfterBorrow(s) == [seen EXCEPT ![s] = chan.version]

\* -------------------------------------------------------------------- Init
Init ==
  /\ posts = <<>>
  /\ guard = "none"
  /\ waitq = <<>>
  /\ dpc = "lock"
  /\ hash = 0
  /\ last_hash = InitialLastHash
  /\ sent = FALSE
  /\ chan = [value |-> <<>>, version |-> InitialVersion]
  /\ spc = [s \in Sessions |-> "idle"]
  /\ seen = [s \in Sessions |-> InitialVersion]
  /\ html = [s \in Sessions |-> NoHtml]
  /\ mpsc = [s \in Sessions |-> <<>>]
  /\ client = [s \in Sessions |-> "none"]
  /\ emitted = [s \in Sessions |-> 0]
  /\ rdver = [s \in Sessions |-> InitialVersion]
  /\ wpc = [w \in Writers |-> "idle"]
  /\ req = [w \in Writers |-> NoReq]
  /\ resp = [w \in Writers |-> 0]
  /\ writes = 0
  /\ next_post_id = InitialNextPostId
  /\ sender = "alive"
  /\ page = NoHtml

\* ------------------------------------------------------------ monitor task
\* let posts_lock = posts_clone.lock().await;
DetectorLock ==
  /\ dpc = "lock"
  /\ guard' = GuardAfterLock("detector")
  /\ waitq' = QueueAfterLock("detector")
  /\ dpc' = "hash"
  /\ UNCHANGED <<posts, hash, last_hash, sent, chan, sessVars, wrVars, restVars>>

\* a tick that republishes whatever it read
always_differs(h, last) == TRUE

\* if hash != last_hash
differs(h, last) == h # last

\* posts_lock.hash(&mut hasher); let hash = hasher.finish(); if hash != last_hash
DetectorHash ==
  /\ dpc = "hash"
  /\ guard = "detector"
  /\ hash' = Hash(posts)
  /\ dpc' = IF differs(hash', last_hash) THEN "send" ELSE "sleep"
  /\ UNCHANGED <<storeVars, last_hash, sent, chan, sessVars, wrVars, restVars>>

\* sender.send_replace(posts_lock.clone()); last_hash = hash;
\* send_replace takes the write side of the value's RwLock and so waits for
\* every outstanding Ref.
DetectorSend ==
  /\ dpc = "send"
  /\ Borrowers = {}
  /\ chan' = send_replace(posts)
  /\ last_hash' = hash
  /\ sent' = TRUE
  /\ dpc' = "sleep"
  /\ UNCHANGED <<storeVars, hash, sessVars, wrVars, restVars>>

\* tokio::time::sleep(..).await returns; the guard is dropped at the end of
\* the loop body, after the sleep.
DetectorWake ==
  /\ dpc = "sleep"
  /\ guard' = GuardAfterUnlock
  /\ waitq' = QueueAfterUnlock
  /\ sent' = FALSE
  /\ dpc' = "lock"
  /\ UNCHANGED <<posts, hash, last_hash, chan, sessVars, wrVars, restVars>>

\* ---------------------------------------------------------------- home_sse
\* the handler: clone of AppState.post_receiver, mpsc::channel(1), spawn
Connect(s) ==
  /\ spc[s] = "idle"
  /\ seen' = [seen EXCEPT ![s] = ReceiverClone]
  /\ mpsc' = [mpsc EXCEPT ![s] = <<>>]
  /\ client' = [client EXCEPT ![s] = "open"]
  /\ spc' = [spc EXCEPT ![s] = "changed"]
  /\ UNCHANGED <<storeVars, detVars, chan, html, emitted, rdver, wrVars, restVars>>

\* _receiver.changed().await returns Ok: marks the version it woke for as seen
Changed(s) ==
  /\ spc[s] = "changed"
  /\ has_changed(s)
  /\ seen' = [seen EXCEPT ![s] = chan.version]
  /\ spc' = [spc EXCEPT ![s] = "borrow"]
  /\ UNCHANGED <<storeVars, detVars, chan, html, mpsc, client, emitted, rdver, wrVars, restVars>>

\* _receiver.borrow_and_update(): takes a Ref and marks the version as seen
BorrowAndUpdate(s) ==
  /\ spc[s] = "borrow"
  /\ seen' = SeenAfterBorrow(s)
  /\ rdver' = [rdver EXCEPT ![s] = chan.version]
  /\ spc' = [spc EXCEPT ![s] = "render"]
  /\ UNCHANGED <<storeVars, detVars, chan, html, mpsc, client, emitted, wrVars, restVars>>

\* home_page(&username, ref) returns and the Ref is dropped
Render(s) ==
  /\ spc[s] = "render"
  /\ html' = [html EXCEPT ![s] = home_page(Username[s], chan.value)]
  /\ spc' = [spc EXCEPT ![s] = "send"]
  /\ UNCHANGED <<storeVars, detVars, chan, seen, mpsc, client, emitted, rdver, wrVars, restVars>>

\* a task that ignores the failed send and goes on waiting for changes
AfterRejectedRetry == "changed"

\* if let Err(_) = sender.send(..).await { return; }
AfterRejected == "closed"

\* sender.send(Ok(Event::default().data(html))).await
\*   Err when the client end is gone: the task returns;
\*   parked while the buffer is full; else the event is queued.
Send(s) ==
  /\ spc[s] = "send"
  /\ \/ /\ client[s] = "gone"
        /\ spc' = [spc EXCEPT ![s] = AfterRejected]
        /\ html' = [html EXCEPT ![s] = NoHtml]
        /\ UNCHANGED <<mpsc, emitted>>
     \/ /\ client[s] = "open"
        /\ Len(mpsc[s]) < MpscCapacity
        /\ mpsc' = [mpsc EXCEPT ![s] = Append(@, html[s])]
        /\ emitted' = [emitted EXCEPT ![s] = @ + 1]
        /\ html' = [html EXCEPT ![s] = NoHtml]
        /\ spc' = [spc EXCEPT ![s] = "changed"]
  /\ UNCHANGED <<storeVars, detVars, chan, seen, client, rdver, wrVars, restVars>>

\* the Sse response polls ReceiverStream and writes the event to the client
ClientRecv(s) ==
  /\ client[s] = "open"
  /\ mpsc[s] # <<>>
  /\ mpsc' = [mpsc EXCEPT ![s] = Tail(@)]
  /\ UNCHANGED <<storeVars, detVars, chan, spc, seen, html, client, emitted, rdver, wrVars, restVars>>

\* the client goes away: the response and with it the mpsc Receiver is dropped
ClientGone(s) ==
  /\ client[s] = "open"
  /\ client' = [client EXCEPT ![s] = "gone"]
  /\ mpsc' = [mpsc EXCEPT ![s] = <<>>]
  /\ UNCHANGED <<storeVars, detVars, chan, spc, seen, html, emitted, rdver, wrVars, restVars>>

\* ------------------------------------------------------------- create_post
\* OffsetDateTime::now_utc(): a logical clock, the requests accepted so far
now == writes

PendingCreates == Cardinality({w \in Writers : req[w].op = "create"})

\* the request arrives: state.lock().await
CreateCall(w, payload) ==
  /\ wpc[w] = "idle"
  /\ writes < MaxWrites
  /\ Len(posts) + PendingCreates < MaxPosts
  /\ req' = [req EXCEPT ![w] = [op |-> "create", username |-> payload.username,
                                message |-> payload.message]]
  /\ wpc' = [wpc EXCEPT ![w] = "lock"]
  /\ writes' = writes + 1
  /\ guard' = GuardAfterLock(w)
  /\ waitq' = QueueAfterLock(w)
  /\ UNCHANGED <<posts, detVars, chan, sessVars, resp, restVars>>

\* an id taken from a length read before the push of the previous request
NextIdStale(ps) == IF Len(ps) > 0 THEN Len(ps) - 1 ELSE 0

\* an id taken from a counter that starts at one
NextIdFromOne(ps) == Len(ps) + 1

\* let id = posts_lock.len() as u64;  (MaxPosts is far below 2^64)
NextId(ps) == Len(ps)

\* with the guard: id = len, push, Ok(200); the guard is dropped on return
CreateRun(w) ==
  /\ wpc[w] = "lock"
  /\ guard = w
  /\ req[w].op = "create"
  /\ posts' = Append(posts, Post(NextId(posts), req[w].username, req[w].message,
                                 now, Avatar(req[w].username)))
  /\ resp' = [resp EXCEPT ![w] = 200]
  /\ req' = [req EXCEPT ![w] = NoReq]
  /\ wpc' = [wpc EXCEPT ![w] = "idle"]
  /\ guard' = GuardAfterUnlock
  /\ waitq' = QueueAfterUnlock
  /\ UNCHANGED <<detVars, chan, sessVars, writes, restVars>>

\* ------------------------------------------------------------- update_post
\* the request arrives: 400 for a blank message, else state.lock().await
UpdateCall(w, request) ==
  /\ wpc[w] = "idle"
  /\ IF IsBlank(request.message)
       THEN /\ resp' = [resp EXCEPT ![w] = 400]
            /\ UNCHANGED <<storeVars, wpc, req, writes>>
       ELSE /\ writes < MaxWrites
            /\ writes' = writes + 1
            /\ req' = [req EXCEPT ![w] = [op |-> "update", id |-> request.id,
                                          username |-> request.username,
                                          message |-> request.message]]
            /\ wpc' = [wpc EXCEPT ![w] = "lock"]
            /\ guard' = GuardAfterLock(w)
            /\ waitq' = QueueAfterLock(w)
            /\ UNCHANGED <<posts, resp>>
  /\ UNCHANGED <<detVars, chan, sessVars, restVars>>

\* a lookup that falls back to the first post when no post has the id
FindIndexOrFirst(ps, id) ==
  IF \E i \in 1..Len(ps) : ps[i].id = id
    THEN CHOOSE i \in 1..Len(ps) :
           ps[i].id = id /\ \A j \in 1..(i - 1) : ps[j].id # id
    ELSE IF ps # <<>> THEN 1 ELSE 0

\* posts_lock.iter_mut().find(|p| p.id == id): the first post with that id
FindIndex(ps, id) ==
  IF \E i \in 1..Len(ps) : ps[i].id = id
    THEN CHOOSE i \in 1..Len(ps) :
           ps[i].id = id /\ \A j \in 1..(i - 1) : ps[j].id # id
    ELSE 0

\* an update that also stamps the post with the time of the edit
UpdatedWithTime(ps, i, r) ==
  [ps EXCEPT ![i].message = r.message, ![i].username = r.username,
             ![i].time = now]

\* an update that also rebuilds the avatar from the new username
UpdatedWithAvatar(ps, i, r) ==
  [ps EXCEPT ![i].message = r.message, ![i].username = r.username,
             ![i].avatar = Avatar(r.username)]

\* post.message = payload.message.clone(); post.username = payload.username.clone();
Updated(ps, i, r) ==
  [ps EXCEPT ![i].message = r.message, ![i].username = r.username]

\* with the guard: message and username replaced, time and avatar kept
UpdateRun(w) ==
  /\ wpc[w] = "lock"
  /\ guard = w
  /\ req[w].op = "update"
  /\ LET i == FindIndex(posts, req[w].id) IN
       IF i # 0
         THEN /\ posts' = Updated(posts, i, req[w])
              /\ resp' = [resp EXCEPT ![w] = 200]
         ELSE /\ posts' = posts
              /\ resp' = [resp EXCEPT ![w] = 404]
  /\ req' = [req EXCEPT ![w] = NoReq]
  /\ wpc' = [wpc EXCEPT ![w] = "idle"]
  /\ guard' = GuardAfterUnlock
  /\ waitq' = QueueAfterUnlock
  /\ UNCHANGED <<detVars, chan, sessVars, writes, restVars>>

\* --------------------------------------------------------------- edit_post
\* GET /posts/:id/edit arrives: state.lock().await
EditCall(w, id) ==
  /\ wpc[w] = "idle"
  /\ req' = [req EXCEPT ![w] = [op |-> "edit", id |-> id]]
  /\ wpc' = [wpc EXCEPT ![w] = "lock"]
  /\ guard' = GuardAfterLock(w)
  /\ waitq' = QueueAfterLock(w)
  /\ UNCHANGED <<posts, detVars, chan, sessVars, resp, writes, restVars>>

\* with the guard: the edit form of the post with that id, or 404
EditRun(w) ==
  /\ wpc[w] = "lock"
  /\ guard = w
  /\ req[w].op = "edit"
  /\ resp' = [resp EXCEPT ![w] = IF FindIndex(posts, req[w].id) # 0
                                   THEN 200 ELSE 404]
  /\ req' = [req EXCEPT ![w] = NoReq]
  /\ wpc' = [wpc EXCEPT ![w] = "idle"]
  /\ guard' = GuardAfterUnlock
  /\ waitq' = QueueAfterUnlock
  /\ UNCHANGED <<posts, detVars, chan, sessVars, writes, restVars>>

\* -------------------------------------------------------------------- home
\* a page request that reads the store itself
StoreSnapshot == posts

\* receiver.borrow_and_update(): the value last published on the channel
ChannelSnapshot == chan.value

\* GET /home: home_page(&username, receiver.borrow_and_update()); the handler
\* has no await point, and the Ref it holds keeps send_replace out meanwhile
Home(u) ==
  /\ page' = home_page(u, ChannelSnapshot)
  /\ UNCHANGED <<storeVars, detVars, chan, sessVars, wrVars, next_post_id,
                 sender>>

\* ---------------------------------------------------------------- shutdown
\* the JoinSet that owns the monitor task is dropped: the task is cancelled at
\* an await point (lock().await or sleep().await), its future is dropped, and
\* with it the store guard it may hold and the watch::Sender
DetectorAbort ==
  /\ sender = "alive"
  /\ \/ dpc \in {"lock", "sleep"}
     \/ dpc = "hash" /\ guard # "detector"
  /\ dpc' = "dead"
  /\ sender' = "dropped"
  /\ sent' = FALSE
  /\ IF guard = "detector"
       THEN /\ guard' = GuardAfterUnlock
            /\ waitq' = QueueAfterUnlock
       ELSE /\ guard' = guard
            /\ waitq' = SelectSeq(waitq, LAMBDA t : t # "detector")
  /\ UNCHANGED <<posts, hash, last_hash, chan, sessVars, wrVars, next_post_id,
                 page>>

\* a receiver that never learns that the sender is gone
closed_never(s) == FALSE

\* Receiver::changed looks at the version first and reports the dropped sender
\* only when there is nothing new to see
closed(s) == sender = "dropped" /\ ~has_changed(s)

\* if _receiver.changed().await.is_err() { return; }
ChangedClosed(s) ==
  /\ spc[s] = "changed"
  /\ closed(s)
  /\ spc' = [spc EXCEPT ![s] = "closed"]
  /\ UNCHANGED <<storeVars, detVars, chan, seen, html, mpsc, client, emitted,
                 rdver, wrVars, restVars>>

\* -------------------------------------------------------------------- Next
SessionStep(s) ==
  \/ Connect(s)
  \/ Changed(s)
  \/ BorrowAndUpdate(s)
  \/ Render(s)
  \/ Send(s)

Next ==
  \/ DetectorLock
  \/ DetectorHash
  \/ DetectorSend
  \/ DetectorWake
  \/ \E s \in Sessions : SessionStep(s)
  \/ \E s \in Sessions : ClientRecv(s)
  \/ \E s \in Sessions : ClientGone(s)
  \/ \E w \in Writers : \E payload \in CreateInputs(w) : CreateCall(w, payload)
  \/ \E w \in Writers : CreateRun(w)
  \/ \E w \in Writers : \E request \in UpdateInputs(w) : UpdateCall(w, request)
  \/ \E w \in Writers : UpdateRun(w)

Spec == Init /\ [][Next]_vars

\* ------------------------------------------------------------- scheduling
\* the runtime polls every task that is ready: the monitor task, whose timer
\* fires, a handler that holds or is handed the guard, and a stream task that
\* is borrowing or rendering (it holds the Ref the monitor's send waits for).
\* Nothing is assumed of clients: requests and disconnects come as they will.
Fairness ==
  /\ WF_vars(DetectorLock)
  /\ WF_vars(DetectorHash)
  /\ WF_vars(DetectorSend)
  /\ WF_vars(DetectorWake)
  /\ \A w \in Writers : WF_vars(CreateRun(w)) /\ WF_vars(UpdateRun(w))
  /\ \A s \in Sessions : WF_vars(BorrowAndUpdate(s)) /\ WF_vars(Render(s))

\* the stream that is followed when progress is checked
Watched == "s1"

\* the monitor, the writers and one stream
NextLive ==
  \/ DetectorLock
  \/ DetectorHash
  \/ DetectorSend
  \/ DetectorWake
  \/ SessionStep(Watched)
  \/ ClientRecv(Watched)
  \/ ClientGone(Watched)
  \/ \E w \in Writers : \E payload \in CreateInputs(w) : CreateCall(w, payload)
  \/ \E w \in Writers : CreateRun(w)
  \/ \E w \in Writers : \E request \in UpdateInputs(w) : UpdateCall(w, request)
  \/ \E w \in Writers : UpdateRun(w)

SpecLive == Init /\ [][NextLive]_vars /\ Fairness

\* -------------------------------------------------- the server shutting down
NextShutdown ==
  \/ Next
  \/ DetectorAbort
  \/ \E s \in Sessions : ChangedClosed(s)

SpecShutdown == Init /\ [][NextShutdown]_vars

\* ------------------------------------- the request handlers without streams
\* a server that has been running: one post created and published earlier
SeedPost == Post(0, "bob", <<" ">>, 0, Avatar("bob"))

InitSeeded ==
  /\ posts = <<SeedPost>>
  /\ guard = "none"
  /\ waitq = <<>>
  /\ dpc = "lock"
  /\ hash = Hash(<<SeedPost>>)
  /\ last_hash = Hash(<<SeedPost>>)
  /\ sent = FALSE
  /\ chan = [value |-> <<SeedPost>>, version |-> InitialVersion + 2]
  /\ spc = [s \in Sessions |-> "idle"]
  /\ seen = [s \in Sessions |-> InitialVersion]
  /\ html = [s \in Sessions |-> NoHtml]
  /\ mpsc = [s \in Sessions |-> <<>>]
  /\ client = [s \in Sessions |-> "none"]
  /\ emitted = [s \in Sessions |-> 0]
  /\ rdver = [s \in Sessions |-> InitialVersion]
  /\ wpc = [w \in Writers |-> "idle"]
  /\ req = [w \in Writers |-> NoReq]
  /\ resp = [w \in Writers |-> 0]
  /\ writes = 0
  /\ next_post_id = InitialNextPostId
  /\ sender = "alive"
  /\ page = NoHtml

InitRequests == Init \/ InitSeeded

NextRequests ==
  \/ DetectorLock
  \/ DetectorHash
  \/ DetectorSend
  \/ DetectorWake
  \/ \E u \in Users : Home(u)
  \/ \E w \in Writers : \E payload \in CreateInputs(w) : CreateCall(w, payload)
  \/ \E w \in Writers : CreateRun(w)
  \/ \E w \in Writers : \E request \in UpdateInputs(w) : UpdateCall(w, request)
  \/ \E w \in Writers : UpdateRun(w)
  \/ \E w \in Writers : \E id \in Ids : EditCall(w, id)
  \/ \E w \in Writers : EditRun(w)

SpecRequests == InitRequests /\ [][NextRequests]_vars

\* ================================================================ claims
\* a session whose task is running and whose client is still connected
Active(s) == spc[s] \in {"changed", "borrow", "render", "send"} /\ client[s] = "open"

\* what changed() resolves to for the session, or what it holds if it has
\* already read the current version
Resolved(s) ==
  IF spc[s] = "send" /\ rdver[s] = chan.version THEN PostsOf(html[s]) ELSE chan.value

\* C1: at the end of every tick (the monitor sleeps, still holding the guard)
\* every active session's changed() resolves to, or the session already holds,
\* a snapshot equal to the store's content.
C1_WriteReachesSessions ==
  dpc = "sleep" => \A s \in Sessions : Active(s) => Resolved(s) = posts

\* C2: at the end of every tick the channel's current value equals the store
\* content read in that tick: no change is missed.
C2_NoChangeMissed == dpc = "sleep" => chan.value = posts

C4_FirstEventWithoutWrite ==
  \A s \in Sessions :
    (dpc = "sleep" /\ spc[s] = "changed" /\ emitted[s] = 0 /\ client[s] = "open")
      => (has_changed(s) /\ chan.value = posts)

\* C5 as stated: a session's receiver starts at the channel's current version.
C5_FreshAtCurrentVersion ==
  [][\A s \in Sessions :
       (spc[s] = "idle" /\ spc'[s] = "changed") => seen'[s] = chan.version]_vars

\* C5 amended: a session's receiver starts at the channel's initial version,
\* so the first changed() of a session is ready exactly when a publish has
\* ever happened, whether before or after the session connected.
C5_FreshAtInitialVersion ==
  \A s \in Sessions :
    (spc[s] = "changed" /\ emitted[s] = 0)
      => (has_changed(s) <=> chan.version # InitialVersion)

C5_Witness ==
  \E s \in Sessions :
    /\ spc[s] = "borrow"
    /\ emitted[s] = 0
    /\ writes = 0
    /\ chan.version = InitialVersion + 1

\* C6: no spurious wakeups: every value a session borrows has a strictly
\* newer version than the one it borrowed before, and a session never has
\* emitted more events than there were publishes.
C6_NoSpuriousWakeup ==
  [][\A s \in Sessions :
       /\ (spc[s] = "borrow" /\ spc'[s] = "render") => chan.version > rdver[s]
       /\ emitted'[s] <= chan'.version - InitialVersion]_vars

C6_Witness ==
  \E s \in Sessions :
    /\ emitted[s] = 2
    /\ spc[s] = "changed"
    /\ ~has_changed(s)

\* C7: only the latest value is delivered: while a session renders, the value
\* it borrows is the channel's newest and that version is the one marked
\* seen; an event about to be sent shows the value of the version that was
\* read; and a session that has read the newest version has nothing further
\* pending, however many publishes it skipped.
C7_OnlyLatestDelivered ==
  \A s \in Sessions :
    /\ spc[s] \in {"render", "send"} => seen[s] = rdver[s]
    /\ spc[s] = "render" => rdver[s] = chan.version
    /\ (spc[s] = "send" /\ rdver[s] = chan.version) => PostsOf(html[s]) = chan.value
    /\ (spc[s] = "changed" /\ emitted[s] > 0 /\ rdver[s] = chan.version)
         => ~has_changed(s)

C7_Witness ==
  \E s \in Sessions :
    /\ spc[s] = "changed"
    /\ emitted[s] = 1
    /\ rdver[s] = chan.version
    /\ chan.version >= InitialVersion + 2
    /\ chan.value # <<>>

\* C8: whenever the monitor is at its publish step, the publish can complete
\* at once.
C8_PublishNeverBlocks == dpc = "send" => ENABLED DetectorSend

\* C9: no writer waits for the store guard while the monitor holds it for
\* its publish step.
C9_WritersNeverWaitOnBroadcast ==
  \A w \in Writers :
    (wpc[w] = "lock" /\ guard # w) => ~(guard = "detector" /\ dpc = "send")

\* the part of the state that belongs to one session
SessionState(s) ==
  <<spc[s], seen[s], html[s], mpsc[s], client[s], emitted[s], rdver[s]>>

\* C10: a step of one session (of its task or of its client) leaves every
\* other session's state, the store and its guard, the monitor and the
\* channel as they were.
C10_SessionsDoNotInterfere ==
  [][\A s \in Sessions :
       SessionState(s)' # SessionState(s)
         => /\ \A t \in Sessions \ {s} : SessionState(t)' = SessionState(t)
            /\ UNCHANGED <<storeVars, detVars, chan>>]_vars

C10_Witness ==
  \E s, t \in Sessions :
    /\ spc[s] = "closed"
    /\ spc[t] = "changed"
    /\ emitted[t] >= 1
    /\ rdver[t] = chan.version
    /\ rdver[t] > rdver[s]
    /\ rdver[s] > InitialVersion

\* C11: a page request (GET /home) answers with the store's content as it is
\* when the request runs, every completed create and update included, whether
\* or not the monitor has ticked since; and it is never kept waiting.
C11_PageShowsStore ==
  /\ [][\A u \in Users : Home(u) => PostsOf(page') = StoreSnapshot]_vars
  /\ [](\A u \in Users : ENABLED Home(u))

\* C12: once the monitor task is gone, no session stays parked in changed():
\* the wait either returns a value not seen yet or reports the closed channel,
\* and a session that is told so ends without emitting anything; while the
\* monitor task lives, no wait reports the channel closed.
C12_ClosedAfterTermination ==
  /\ [](\A s \in Sessions :
         (dpc = "dead" /\ spc[s] = "changed")
           => ENABLED (Changed(s) \/ ChangedClosed(s)))
  /\ [][\A s \in Sessions :
         (spc[s] = "changed" /\ spc'[s] = "closed")
           => (dpc = "dead" /\ ~has_changed(s)
               /\ emitted'[s] = emitted[s] /\ mpsc'[s] = mpsc[s])]_vars
  /\ [][\A s \in Sessions :
         (dpc = "dead" /\ spc[s] = "changed" /\ ~has_changed(s)
          /\ spc'[s] # spc[s]) => spc'[s] = "closed"]_vars

\* both sessions were told of the shutdown while their clients were connected
C12_Witness ==
  /\ dpc = "dead"
  /\ \A s \in Sessions : spc[s] = "closed" /\ client[s] = "open"

\* C13: a session's task ends only at a send the client's side rejected or at
\* a changed() that reported the closed channel, and it ends at the first of
\* them; once ended it stays ended and emits nothing more.
C13_StreamsUntilRejectedOrClosed ==
  /\ [][\A s \in Sessions :
         (spc[s] # "closed" /\ spc'[s] = "closed")
           => \/ spc[s] = "send" /\ client[s] = "gone"
              \/ spc[s] = "changed" /\ closed(s)]_vars
  /\ [][\A s \in Sessions :
         (spc[s] = "send" /\ client[s] = "gone" /\ spc'[s] # spc[s])
           => spc'[s] = "closed"]_vars
  /\ [][\A s \in Sessions :
         (spc[s] = "changed" /\ closed(s) /\ spc'[s] # spc[s])
           => spc'[s] = "closed"]_vars
  /\ [][\A s \in Sessions :
         spc[s] = "closed"
           => (spc'[s] = "closed" /\ emitted'[s] = emitted[s]
               /\ Len(mpsc'[s]) <= Len(mpsc[s]) /\ seen'[s] = seen[s])]_vars

\* one session ended at a rejected send after it had streamed, the other at
\* the closed channel
C13_Witness ==
  /\ spc["s1"] = "closed" /\ client["s1"] = "gone" /\ emitted["s1"] > 0
  /\ spc["s2"] = "closed" /\ client["s2"] = "open"

\* C14: however create requests interleave, every post's id is greater than
\* the id of every post before it in the store; a create puts its post behind
\* the posts already there, with an id greater than all of theirs; and no step
\* changes the id or the position of a post that is in the store.
C14_IdsStrictlyIncreasing ==
  /\ [](\A i, j \in 1..Len(posts) : i < j => posts[i].id < posts[j].id)
  /\ [][Len(posts') # Len(posts)
          => /\ Len(posts') = Len(posts) + 1
             /\ SubSeq(posts', 1, Len(posts)) = posts
             /\ \A i \in 1..Len(posts) :
                  posts[i].id < posts'[Len(posts')].id]_vars
  /\ [][\A i \in 1..Len(posts) :
          i <= Len(posts') /\ posts'[i].id = posts[i].id]_vars

\* two creates that were both in flight before either was applied, the second
\* writer's applied first
C14_Witness ==
  /\ Len(posts) = 2
  /\ posts[1].avatar = Avatar("bob") /\ posts[1].time = 2
  /\ posts[2].avatar = Avatar("alice") /\ posts[2].time = 2

\* a message of no characters or of white space only
OnlyWhitespace(m) == \A k \in 1..Len(m) : m[k] = " "

\* C15: an update whose message is empty or white space only is answered 400
\* and changes nothing: every post keeps all its fields, no writer takes or
\* queues for the store guard, and the channel is left alone; no update with
\* such a message is ever waiting for the store.
C15_BlankUpdateRejected ==
  /\ [][\A w \in Writers : \A request \in UpdateInputs(w) :
          (OnlyWhitespace(request.message) /\ UpdateCall(w, request))
            => /\ resp'[w] = 400
               /\ UNCHANGED <<posts, guard, waitq, chan, last_hash, wpc, req>>]_vars
  /\ [](\A w \in Writers :
          req[w].op = "update" => ~OnlyWhitespace(req[w].message))

\* the first writer created a post (200) and then had an update refused
C15_Witness ==
  /\ resp["w1"] = 400
  /\ \E i \in 1..Len(posts) : posts[i].avatar = Avatar("alice")

\* no post in the store has this id
Unknown(id) == \A i \in 1..Len(posts) : posts[i].id # id

\* C16: an update for an id that no post in the store has is answered 404 and
\* leaves the store unchanged, whatever message it carries.
C16_UnknownIdNotFound ==
  /\ [][\A w \in Writers : \A request \in UpdateInputs(w) :
          (UpdateCall(w, request) /\ Unknown(request.id) /\ wpc'[w] = "idle")
            => (resp'[w] = 404 /\ posts' = posts)]_vars
  /\ [][\A w \in Writers :
          (UpdateRun(w) /\ Unknown(req[w].id))
            => (resp'[w] = 404 /\ posts' = posts)]_vars

\* C16, amended: an update with a message that is not blank, for an id that no
\* post in the store has when the update takes the guard, is answered 404 and
\* leaves the store unchanged; with a blank message the answer is 400, the
\* store again unchanged, since the message is tested before the lookup.
C16_UnknownIdNotFoundUnlessBlank ==
  /\ [][\A w \in Writers :
          (wpc[w] = "lock" /\ req[w].op = "update" /\ wpc'[w] = "idle"
           /\ Unknown(req[w].id))
            => (resp'[w] = 404 /\ posts' = posts)]_vars
  /\ [][\A w \in Writers : \A request \in UpdateInputs(w) :
          (UpdateCall(w, request) /\ Unknown(request.id) /\ wpc'[w] = "idle")
            => (resp'[w] = 400 /\ posts' = posts)]_vars

\* the first writer created a post (200) and then updated an id that is not
\* in the store
C16_Witness ==
  /\ resp["w1"] = 404
  /\ \E i \in 1..Len(posts) : posts[i].avatar = Avatar("alice")

\* C17: an update whose editor (the username sent with it) is not the author
\* of the post it names is answered 403 and leaves that post as it was. (No
\* handler ever sets a post's owner_id, so the author is all there is to match.)
C17_ForeignEditorForbidden ==
  [][\A w \in Writers : \A i \in 1..Len(posts) :
       (UpdateRun(w) /\ posts[i].id = req[w].id
        /\ req[w].username # posts[i].username)
         => (resp'[w] = 403 /\ posts'[i] = posts[i])]_vars

\* C18: an update that reaches the store with the id of a post in it is
\* answered 200 and gives that post the submitted message; the posts stay as
\* many and in the same places, the post keeps its id and its avatar, and
\* every other post keeps all its fields.
C18_UpdateFrame ==
  [][\A w \in Writers : \A i \in 1..Len(posts) :
       (wpc[w] = "lock" /\ req[w].op = "update" /\ wpc'[w] = "idle"
        /\ posts[i].id = req[w].id)
         => /\ resp'[w] = 200
            /\ Len(posts') = Len(posts)
            /\ posts'[i].message = req[w].message
            /\ posts'[i].id = posts[i].id
            /\ posts'[i].avatar = posts[i].avatar
            /\ \A j \in 1..Len(posts) : j # i => posts'[j] = posts[j]]_vars

\* the second of two posts was updated, the first is as it was created
C18_Witness ==
  /\ Len(posts) = 2
  /\ posts[1] = SeedPost
  /\ posts[2].message = <<"b">> /\ posts[2].avatar = Avatar("alice")
  /\ resp["w1"] = 200

\* C19: the post at position i of the store (counting from 0) has id i, so
\* the first post has id 0; and an edit-form request or an update that reaches
\* the store with an id below the number of posts finds its post (200).
C19_IdIsPosition ==
  /\ [](\A i \in 1..Len(posts) : posts[i].id = i - 1)
  /\ [][\A w \in Writers :
          (wpc[w] = "lock" /\ req[w].op \in {"edit", "update"}
           /\ wpc'[w] = "idle" /\ req[w].id < Len(posts))
            => resp'[w] = 200]_vars

\* a post was created into a store of one post, and the edit form of that
\* new post is being fetched
C19_Witness ==
  /\ Len(posts) = 2
  /\ posts[2].id = 1 /\ posts[2].time > 0
  /\ guard = "w2" /\ req["w2"].op = "edit" /\ req["w2"].id = 1
  /\ ENABLED EditRun("w2")

\* C20: ids come from the next_post_id counter, which starts at 1: the n-th
\* post created gets id n, taken from the counter, and the counter moves on.
C20_IdsFromCounter ==
  [][Len(posts') = Len(posts) + 1
       => /\ posts'[Len(posts')].id = Len(posts')
          /\ posts'[Len(posts')].id = next_post_id
          /\ next_post_id' = next_post_id + 1]_vars

\* C21: an update that reaches the store with the id of a post in it sets
\* that post's time to the time of the edit, besides replacing its message.
C21_UpdateRefreshesTime ==
  [][\A w \in Writers : \A i \in 1..Len(posts) :
       (wpc[w] = "lock" /\ req[w].op = "update" /\ wpc'[w] = "idle"
        /\ posts[i].id = req[w].id)
         => (posts'[i].time = now /\ posts'[i].message = req[w].message)]_vars

\* C21, amended: an update that reaches the store with the id of a post in it
\* replaces that post's message and leaves its time as it was when the post
\* was created.
C21_UpdateKeepsTime ==
  [][\A w \in Writers : \A i \in 1..Len(posts) :
       (wpc[w] = "lock" /\ req[w].op = "update" /\ wpc'[w] = "idle"
        /\ posts[i].id = req[w].id)
         => (posts'[i].time = posts[i].time
             /\ posts'[i].message = req[w].message)]_vars

\* a post created at one time was updated at a later one and shows the former
C21_Witness ==
  /\ \E i \in 1..Len(posts) :
       /\ posts[i].avatar = Avatar("alice")
       /\ posts[i].message = <<"b">>
       /\ posts[i].time = 1
  /\ writes = 2
  /\ wpc["w1"] = "idle" /\ resp["w1"] = 200

\* the store holds exactly one post, as created and not edited since
OneAppend == Len(posts) = 1 /\ posts[1].message # <<"b">>

C23_UpdateAtomic ==
  /\ [](guard \in Writers => wpc[guard] = "lock")
  /\ [](guard = "detector" => dpc \in {"hash", "send", "sleep"})
  /\ [](dpc \in {"send", "sleep"} => guard = "detector")
  /\ [](\A k \in 1..Len(waitq) : waitq[k] # guard)
  /\ [](dpc = "send" => hash = Hash(posts))
  /\ [][posts' # posts
          => (guard \in Writers /\ wpc'[guard] = "idle" /\ guard' # guard)]_vars
  /\ [][\A w \in Writers :
          (guard = w /\ req[w].op = "update")
            => \/ posts' = posts
               \/ /\ wpc'[w] = "idle"
                  /\ Len(posts') = Len(posts)
                  /\ \A j \in 1..Len(posts) :
                       posts[j].id # req[w].id => posts'[j] = posts[j]]_vars

\* an update holds the guard while a create and the monitor wait for it
C23_Witness ==
  /\ guard = "w1" /\ req["w1"].op = "update"
  /\ waitq = <<"w2", "detector">> /\ req["w2"].op = "create"
  /\ FindIndex(posts, req["w1"].id) # 0

\* nothing is left to publish: the store is what the channel holds, the monitor
\* has its hash, and no request is under way
Quiet ==
  /\ chan.version # InitialVersion
  /\ chan.value = posts
  /\ last_hash = Hash(posts)
  /\ \A w \in Writers : wpc[w] = "idle"

\* C24: a session whose client is gone is not left parked when nothing more
\* will be published: until its task has ended, the task has a step to take.
C24_GoneClientNotParked ==
  \A s \in Sessions :
    (client[s] = "gone" /\ spc[s] # "closed" /\ Quiet) => ENABLED SessionStep(s)

\* C25: the monitor does not hold the store guard while it sleeps, so a
\* writer that asks for the guard during the sleep is not queued behind it.
C25_GuardFreeDuringSleep ==
  /\ [](dpc = "sleep" => guard # "detector")
  /\ [][\A w \in Writers :
          (dpc = "sleep" /\ wpc[w] = "idle" /\ wpc'[w] = "lock"
           /\ guard \notin Writers) => guard' = w]_vars

\* C26: every create or update that has asked for the store guard gets it and
\* completes, while the monitor keeps taking the guard tick after tick and
\* the other handlers and the stream tasks keep running.
C26_NoWriterStarvation ==
  \A w \in Writers : (wpc[w] = "lock") ~> (wpc[w] = "idle")

\* a create that had to wait for the guard, the other writer's create being
\* ahead of it, now holds it
C26_Witness ==
  /\ guard = "w2" /\ wpc["w2"] = "lock" /\ req["w2"].op = "create"
  /\ Len(posts) = 1
  /\ posts[1].avatar = Avatar("alice") /\ posts[1].time = 2

\* C27: what a tick publishes is the whole store as it is at that step, the
\* store not changing in it and the guard being the monitor's; a post of a
\* published snapshot never carries an update's message without the username
\* that came with it; and a step that changes the store leaves the channel's
\* value and version as they are.
C27_SnapshotConsistent ==
  /\ [][chan' # chan
          => (chan'.value = posts /\ posts' = posts /\ guard = "detector"
              /\ chan'.version = chan.version + 1)]_vars
  /\ [][posts' # posts => chan' = chan]_vars
  /\ [](\A i \in 1..Len(chan.value) :
          chan.value[i].message = <<"b">> => chan.value[i].username = "bob")

\* an updated post was published, and a post created afterwards is in the
\* store but not in the published snapshot
C27_Witness ==
  /\ Len(chan.value) = 1
  /\ chan.value[1].message = <<"b">> /\ chan.value[1].username = "bob"
  /\ Len(posts) = 2 /\ posts[1] = chan.value[1]

====
